---- MODULE Spec2Model ----
(***************************************************************************)
(* Model of core/utils/audio_recording.py: one AudioRecorder driven by its *)
(* session (append_audio_packet, close), the wall clock, and the part of   *)
(* the filesystem the recorder touches.                                    *)
(*                                                                         *)
(* A handler is one atomic action.  Inside a handler the Python statements *)
(* are composed as operators over a record `s` holding the recorder's      *)
(* fields, the filesystem, the log of library calls made by the handler    *)
(* (`trace`, a failed call is suffixed with "!") and `raised`, which is    *)
(* TRUE once an exception is propagating (every later statement is then    *)
(* skipped).  The outcome of each library call (os.makedirs, wave.open,    *)
(* writeframes, Decoder(), decode, close, os.replace, subprocess.run,      *)
(* os.remove) is an input of the action.                                   *)
(*                                                                         *)
(* Abstractions: a packet is its length in bytes; a file is the id of the  *)
(* segment whose audio it holds and the number of PCM bytes in it; a path  *)
(* below root_dir/<device>/<date>/ is the tuple of the filename fields     *)
(* that vary within one recorder (open second, segment index, length       *)
(* label, extension).  While a container is Open its file stands for what  *)
(* was handed to the handle; what is on disk after the handle is closed is *)
(* all of it, or, when the close raises, any part of it.  A writeframes    *)
(* call that raises has appended any part of the frame.  An open reads the *)
(* clock twice, and the second may have changed between the two reads: a   *)
(* raw file name carries both.  The transcoding                            *)
(* tool is an arbitrary program: whether it exits with success and whether *)
(* it wrote its output, none of it or part of it are separate inputs.  A   *)
(* compressed packet is empty or not: its length plays no other part in    *)
(* the code.                                                               *)
(***************************************************************************)
EXTENDS Integers, Sequences, FiniteSets, TLC

VARIABLES
    config,               \* RecordingConfig (frozen dataclass)
    device_id,            \* self.device_id
    device_dir,           \* self.device_dir
    ffmpeg_resolvable,    \* environment: shutil.which(config.ffmpeg_path) finds it
    clock,                \* wall clock, whole seconds
    decoder,              \* self._decoder: 0 is None, else the id of the Decoder object
    decoders_made,        \* number of Decoder objects constructed so far
    wav_fp,               \* self._wav_fp: 0 is None, else the id of the open container
    wav_path,             \* self._wav_path: NoPath is None
    frames_written,       \* self._frames_written
    segment_index,        \* self._segment_index
    segment_start_epoch,  \* self._segment_start_epoch: NoEpoch is None
    fs,                   \* files below the recording directory: path -> content
    dirs,                 \* directories created so far
    opened,               \* number of containers opened so far
    segments,             \* history: one record per finalized segment, in order
    call,                 \* the last call made on the recorder and its inputs
    trace,                \* library calls made by the last call, in order
    raised,               \* the last call raised to its caller
    faults,               \* number of library calls that have failed so far (raised, or
                          \* the tool returning without its output)
    peer,                 \* a second recorder of the same server: its device id and directory
    server_config,        \* WebSocketServer.config: the id of the configuration in use
    modules,              \* WebSocketServer._vad, _asr, _llm, _intent, _memory
    config_lock,          \* WebSocketServer.config_lock: locked or not, and the tasks queued on it
    updaters              \* the tasks calling update_config: position and last result

vars == <<config, device_id, device_dir, ffmpeg_resolvable, clock, decoder, decoders_made, wav_fp, wav_path,
          frames_written, segment_index, segment_start_epoch, fs, dirs, opened,
          segments, call, trace, raised, faults, peer,
          server_config, modules, config_lock, updaters>>

\* the WebSocketServer's part of the state
server_vars == <<server_config, modules, config_lock, updaters>>
\* the recorders' part of the state
recorder_vars == <<config, device_id, device_dir, ffmpeg_resolvable, clock, decoder,
                   decoders_made, wav_fp, wav_path, frames_written, segment_index,
                   segment_start_epoch, fs, dirs, opened, segments, call, trace,
                   raised, faults, peer>>

-----------------------------------------------------------------------------
(* Bounds of the model *)

MaxClock == 1
MaxSegments == 2
MaxPacketLen == 4
MaxBytes == 6
MaxFaults == 1
MaxUpdaters == 2
MaxConfigs == 2

-----------------------------------------------------------------------------
(* Values *)

None == 0
NoEpoch == -1
NoLabel == -1
NoPath == [t |-> -1, epoch |-> NoEpoch, idx |-> -1, len |-> NoLabel, ext |-> "none"]

SegmentSeconds == {0, 1}
SampleRates == {2}
Channels == {1, 2}

RecordingConfig ==
    [enabled : BOOLEAN, segment_seconds : SegmentSeconds, sample_rate : SampleRates,
     channels : Channels, keep_wav : BOOLEAN]

PacketLens == 0 .. MaxPacketLen
\* lengths of the compressed packets tried: an empty and a non-empty one
OpusLens == {0, 1}
Formats == {"pcm", "opus"}
\* what Decoder.decode returns for a packet: -1 is an exception, else the PCM length
DecodeFails == -1
DecodedLens == {4}

Max(a, b) == IF a >= b THEN a ELSE b

Put(f, p, v) == [q \in (DOMAIN f) \cup {p} |-> IF q = p THEN v ELSE f[q]]
Del(f, p) == [q \in (DOMAIN f) \ {p} |-> f[q]]
NoFiles == [q \in {} |-> [seg |-> 0, bytes |-> 0]]

\* a library call is made and returns
Log(s, what) == [s EXCEPT !.trace = Append(@, what)]
\* a library call fails and the exception is caught
Fail(s, what) == [s EXCEPT !.trace = Append(@, what), !.faults = @ + 1]
\* a library call fails and the exception propagates
Raise(s, what) == [Fail(s, what) EXCEPT !.raised = TRUE]

-----------------------------------------------------------------------------
(* sanitize_device_id: a device id is a sequence of characters *)

MaxIdLen == 3

Letters == {"a", "Z", "u", "n", "k", "o", "w"}
Digits == {"7"}
\* the characters the pattern [a-zA-Z0-9._-] accepts
SafeChars == Letters \cup Digits \cup {".", "_", "-"}
Whitespace == {" "}
\* the characters device ids are drawn from: safe ones, separators, whitespace
IdChars == {"a", "Z", "7", ".", "_", "-", "/", ":", " "}
Unknown == <<"u", "n", "k", "n", "o", "w", "n">>

RECURSIVE LStrip(_)
LStrip(str) ==
    IF str # <<>> /\ Head(str) \in Whitespace THEN LStrip(Tail(str)) ELSE str

RECURSIVE RStrip(_)
RStrip(str) ==
    IF str # <<>> /\ str[Len(str)] \in Whitespace
    THEN RStrip(SubSeq(str, 1, Len(str) - 1))
    ELSE str

\* str.strip()
Strip(str) == RStrip(LStrip(str))

\* re.sub(r"[^a-zA-Z0-9._-]+", "_", str): every maximal run of characters
\* outside the class becomes one "_"; in_run says the previous character was
\* part of such a run
RECURSIVE ReSub(_, _)
ReSub(str, in_run) ==
    IF str = <<>> THEN <<>>
    ELSE IF Head(str) \in SafeChars THEN <<Head(str)>> \o ReSub(Tail(str), FALSE)
    ELSE IF in_run THEN ReSub(Tail(str), TRUE)
    ELSE <<"_">> \o ReSub(Tail(str), TRUE)

\* mutant: the separator is dropped instead of replaced
sanitize_device_id_drops(id) ==
    IF id = <<>> THEN Unknown
    ELSE SelectSeq(Strip(id), LAMBDA c : c \in SafeChars)

sanitize_device_id(id) ==
    IF id = <<>> THEN Unknown
    ELSE LET safe == ReSub(Strip(id), FALSE)
         IN  IF safe = <<>> THEN Unknown ELSE safe

-----------------------------------------------------------------------------
(* AudioRecorder *)

\* the name of a raw file: t is the second of the datetime.now() that gives the
\* timestamp, the date directory and the range label, epoch the int(time.time())
\* read after it
RawPath(t, epoch, idx) ==
    [t |-> t, epoch |-> epoch, idx |-> idx, len |-> NoLabel, ext |-> "wav"]

\* the recorder's fields, the filesystem and the bookkeeping of one call
Fields ==
    [decoder |-> decoder, decoders_made |-> decoders_made, wav_fp |-> wav_fp,
     wav_path |-> wav_path, frames_written |-> frames_written,
     segment_index |-> segment_index, segment_start_epoch |-> segment_start_epoch,
     fs |-> fs, dirs |-> dirs, opened |-> opened, segments |-> segments,
     trace |-> <<>>, raised |-> FALSE, faults |-> faults, clock |-> clock]

\* _ensure_segment_open; mk_root_ok, mk_device_ok: outcomes of the two
\* os.makedirs calls, later: the seconds that pass between datetime.now() and
\* time.time(), open_ok: outcome of wave.open
_ensure_segment_open(s, mk_root_ok, mk_device_ok, later, open_ok) ==
    IF s.wav_fp # None THEN s
    ELSE IF ~mk_root_ok THEN Raise(s, "os.makedirs!")
    ELSE IF ~mk_device_ok
    THEN Raise([s EXCEPT !.dirs = @ \cup {"root"},
                         !.trace = Append(@, "os.makedirs")], "os.makedirs!")
    ELSE LET epoch == s.clock + later
             path == RawPath(s.clock, epoch, s.segment_index)
             s1 == [s EXCEPT !.dirs = @ \cup {"root", "device"},
                             !.clock = epoch,
                             !.segment_start_epoch = epoch,
                             !.wav_path = path,
                             !.trace = @ \o <<"os.makedirs", "os.makedirs">>]
         IN  IF ~open_ok THEN Raise(s1, "wave.open!")
             ELSE [s1 EXCEPT !.fs = Put(@, path, [seg |-> s.opened + 1, bytes |-> 0]),
                             !.wav_fp = s.opened + 1,
                             !.opened = @ + 1,
                             !.frames_written = 0,
                             !.trace = Append(@, "wave.open")]

\* the bytes of pcm_frame that are written: a trailing odd byte is dropped
WholeSamples(n) == IF n % 2 # 0 THEN n - 1 ELSE n

\* the outcomes of writeframes(pcm_frame) for a frame of m bytes: it returns,
\* or it raises after k of the m bytes were appended to the container
WriteReturns == -1
WriteOutcomes(m) == {WriteReturns} \cup 0 .. m

\* writeframes raises after k bytes: the frame counter is not reached
WriteRaises(s, k) ==
    Raise([s EXCEPT !.fs = Put(@, s.wav_path, [@[s.wav_path] EXCEPT !.bytes = @ + k])],
          "writeframes!")

\* _write_pcm; n: len(pcm_frame), write: outcome of writeframes
_write_pcm(s, n, write) ==
    IF s.wav_fp = None THEN s
    ELSE LET m == WholeSamples(n)
         IN  IF m = 0 THEN s
             ELSE IF write # WriteReturns THEN WriteRaises(s, write)
             ELSE [s EXCEPT !.fs = Put(@, s.wav_path,
                                       [@[s.wav_path] EXCEPT !.bytes = @ + m]),
                            !.frames_written = @ + (m \div 2) \div Max(config.channels, 1),
                            !.trace = Append(@, "writeframes")]

\* mutant: an exception of Decoder() or decode() is not caught
_decode_opus_propagates(s, ctor_ok, out) ==
    IF s.decoder = None /\ ~ctor_ok THEN [s |-> Raise(s, "Decoder!"), pcm |-> 0]
    ELSE IF out = DecodeFails THEN [s |-> Raise(s, "decode!"), pcm |-> 0]
    ELSE [s |-> Log(s, "decode"), pcm |-> out]

\* mutant: a decode() that raises throws the decoder away
_decode_opus_resets(s, ctor_ok, out) ==
    IF s.decoder = None /\ ~ctor_ok THEN [s |-> Fail(s, "Decoder!"), pcm |-> 0]
    ELSE LET s1 == IF s.decoder = None
                   THEN [s EXCEPT !.decoder = s.decoders_made + 1,
                                  !.decoders_made = @ + 1,
                                  !.trace = Append(@, "Decoder")]
                   ELSE s
         IN  IF out = DecodeFails
             THEN [s |-> Fail([s1 EXCEPT !.decoder = None], "decode!"), pcm |-> 0]
             ELSE [s |-> Log(s1, "decode"), pcm |-> out]

\* _decode_opus; ctor_ok: outcome of opuslib_next.Decoder(), out: what decode
\* returns (DecodeFails: it raises).  The result is the state and len(pcm).
_decode_opus(s, ctor_ok, out) ==
    IF s.decoder = None /\ ~ctor_ok THEN [s |-> Fail(s, "Decoder!"), pcm |-> 0]
    ELSE LET s1 == IF s.decoder = None
                   THEN [s EXCEPT !.decoder = s.decoders_made + 1,
                                  !.decoders_made = @ + 1,
                                  !.trace = Append(@, "Decoder")]
                   ELSE s
         IN  IF out = DecodeFails THEN [s |-> Fail(s1, "decode!"), pcm |-> 0]
             ELSE [s |-> Log(s1, "decode"), pcm |-> out]

\* what the transcoding tool has written when subprocess.run ends: its whole
\* output, nothing, or an incomplete file
ToolOutputs == {"whole", "none", "partial"}

\* outcomes of the library calls of one _finalize_segment.  kept: the bytes of
\* the container that are on disk after a wav_fp.close() that raised; tool_out:
\* what the tool wrote, whether it exited with success (run_ok) or not
AllOk ==
    [close_ok |-> TRUE, kept |-> 0, replace_ok |-> TRUE, run_ok |-> TRUE,
     tool_out |-> "whole", remove_ok |-> TRUE]

\* mutant: an empty segment is thrown away by a forced finalize too
DiscardsEmptyAlways(frames, convert_even_if_short) == frames = 0

\* the empty-segment rule of _finalize_segment
Discards(frames, convert_even_if_short) == frames = 0 /\ ~convert_even_if_short

\* mutant: the transcoding tool is run without asking shutil.which
ToolAssumed == TRUE

\* shutil.which(self.config.ffmpeg_path)
ToolResolved == ffmpeg_resolvable

\* mutant: the length label counts seconds
DurationSeconds(frames) == frames \div Max(config.sample_rate, 1)

\* int((frames_written * 1000) / max(sample_rate, 1))
DurationMs(frames) == (frames * 1000) \div Max(config.sample_rate, 1)

\* the tail of _finalize_segment for a segment that is kept: rename, then
\* transcode.  s: the state after the handle was closed, path: the raw file
Persist(s, path, frames, fin) ==
    LET renamed == [path EXCEPT !.len = DurationMs(frames)]
        s1 == IF fin.replace_ok
              THEN [s EXCEPT !.fs = Put(Del(@, path), renamed, @[path]),
                             !.trace = Append(@, "os.replace")]
              ELSE Fail(s, "os.replace!")
        wav == IF fin.replace_ok THEN renamed ELSE path
        mp3 == [wav EXCEPT !.ext = "mp3"]
    IN  IF ~ToolResolved THEN Log(s1, "shutil.which!")
        ELSE LET ran == [Log(s1, "shutil.which") EXCEPT
                           !.fs = IF fin.tool_out = "whole" THEN Put(@, mp3, @[wav])
                                  ELSE IF fin.tool_out = "partial"
                                  THEN Put(@, mp3, [@[wav] EXCEPT !.bytes = 0])
                                  ELSE @]
             IN  IF ~fin.run_ok THEN Fail(ran, "subprocess.run!")
                 ELSE LET s2 == IF fin.tool_out = "whole"
                                THEN Log(ran, "subprocess.run")
                                ELSE [Log(ran, "subprocess.run") EXCEPT !.faults = @ + 1]
                      IN  IF config.keep_wav THEN s2
                          ELSE IF fin.remove_ok
                          THEN [s2 EXCEPT !.fs = Del(@, wav),
                                          !.trace = Append(@, "os.remove")]
                          ELSE Fail(s2, "os.remove!")

\* _finalize_segment(convert_even_if_short)
_finalize_segment(s, convert_even_if_short, fin) ==
    IF s.wav_fp = None \/ s.wav_path = NoPath THEN s
    ELSE LET path == s.wav_path
             frames == s.frames_written
             discard == Discards(frames, convert_even_if_short)
             stored == IF fin.close_ok THEN s.fs[path].bytes ELSE fin.kept
             done == [seg |-> s.wav_fp, idx |-> path.idx, frames |-> frames,
                      bytes |-> s.fs[path].bytes, stored |-> stored,
                      forced |-> convert_even_if_short, discarded |-> discard]
             s0 == [s EXCEPT !.wav_fp = None,
                             !.wav_path = NoPath,
                             !.frames_written = 0,
                             !.segment_start_epoch = NoEpoch,
                             !.fs = Put(@, path, [@[path] EXCEPT !.bytes = stored]),
                             !.segments = Append(@, done)]
             s1 == IF fin.close_ok THEN Log(s0, "close") ELSE Fail(s0, "close!")
         IN  IF discard
             THEN IF fin.remove_ok
                  THEN [s1 EXCEPT !.fs = Del(@, path), !.trace = Append(@, "os.remove")]
                  ELSE Fail(s1, "os.remove!")
             ELSE Persist(s1, path, frames, fin)

\* the outcomes of a library call when n more failures may still happen
May(n) == IF n > 0 THEN BOOLEAN ELSE {TRUE}
Cost(ok) == IF ok THEN 0 ELSE 1

\* the ways subprocess.run and the tool may end when n more failures may
\* still happen; cost: whether that is a failure
ToolRuns(n) ==
    {[run_ok |-> r, tool_out |-> o, cost |-> Cost(r /\ o = "whole")] :
        r \in May(n), o \in IF n > 0 THEN ToolOutputs ELSE {"whole"}}

\* the outcomes that matter to a finalize of a segment of `frames` frames whose
\* container was handed `bytes` bytes, after `failed` failures: a call that is
\* not reached succeeds, and at most MaxFaults calls fail in all
FinChoices(frames, convert_even_if_short, bytes, failed) ==
    LET kept == ~Discards(frames, convert_even_if_short)
        runs == kept /\ ToolResolved
        left == MaxFaults - failed
    IN  UNION {UNION {UNION {
          {[close_ok |-> c, kept |-> k, replace_ok |-> r, run_ok |-> t.run_ok,
            tool_out |-> t.tool_out, remove_ok |-> m] :
              k \in IF c THEN {0} ELSE 0 .. bytes,
              m \in IF ~kept \/ (runs /\ t.run_ok /\ ~config.keep_wav)
                    THEN May(left - Cost(c) - Cost(r) - t.cost) ELSE {TRUE}} :
          t \in IF runs THEN ToolRuns(left - Cost(c) - Cost(r)) ELSE ToolRuns(0)} :
          r \in IF kept THEN May(left - Cost(c)) ELSE {TRUE}} :
          c \in May(left)}

\* mutant: rotation waits until the threshold is exceeded
RotationDueLate(frames) == frames > config.segment_seconds * config.sample_rate

\* the test of _rotate_if_needed
RotationDue(frames) == frames >= config.segment_seconds * config.sample_rate

\* mutant: a rotation abandons the segment instead of finalizing it
_rotate_if_needed_abandons(s, fin) ==
    IF RotationDue(s.frames_written)
    THEN [s EXCEPT !.wav_fp = None, !.wav_path = NoPath, !.frames_written = 0,
                   !.segment_start_epoch = NoEpoch, !.segment_index = @ + 1]
    ELSE s

\* _rotate_if_needed
_rotate_if_needed(s, fin) ==
    IF RotationDue(s.frames_written)
    THEN [_finalize_segment(s, FALSE, fin) EXCEPT !.segment_index = @ + 1]
    ELSE s

\* mutant: only a disabled recorder skips the packet
SkipsWhenDisabled(len) == ~config.enabled

\* the two early returns of append_audio_packet
Skips(len) == ~config.enabled \/ len = 0

\* append_audio_packet up to, and without, the rotation check
Ingest(s, len, audio_format, in) ==
    IF Skips(len) THEN s
    ELSE LET s1 == _ensure_segment_open(s, in.mk_root_ok, in.mk_device_ok, in.later,
                                        in.open_ok)
         IN  IF s1.raised \/ s1.wav_fp = None THEN s1
             ELSE IF audio_format = "pcm" THEN _write_pcm(s1, len, in.write)
             ELSE LET d == _decode_opus(s1, in.ctor_ok, in.out)
                  IN  IF d.pcm > 0 THEN _write_pcm(d.s, d.pcm, in.write) ELSE d.s

\* the rotation check of append_audio_packet is reached
ReachesRotation(s, len) == ~Skips(len) /\ ~s.raised /\ s.wav_fp # None

\* append_audio_packet(packet, audio_format); len: len(packet)
append_audio_packet(s, len, audio_format, in) ==
    LET s2 == Ingest(s, len, audio_format, in)
    IN  IF ReachesRotation(s2, len) THEN _rotate_if_needed(s2, in.fin) ELSE s2

\* mutant: close() advances the sequence index as a rotation does
close_advances(s, fin) ==
    [_finalize_segment(s, TRUE, fin) EXCEPT !.segment_index = @ + 1]

\* mutant: close() on a Closed recorder still tries to remove a raw file
close_unguarded(s, fin) ==
    IF s.wav_fp = None THEN Log(s, "os.remove") ELSE _finalize_segment(s, TRUE, fin)

\* close()
close(s, fin) == _finalize_segment(s, TRUE, fin)

-----------------------------------------------------------------------------
(* Actions *)

Commit(s, c) ==
    /\ decoder' = s.decoder
    /\ decoders_made' = s.decoders_made
    /\ wav_fp' = s.wav_fp
    /\ wav_path' = s.wav_path
    /\ frames_written' = s.frames_written
    /\ segment_index' = s.segment_index
    /\ segment_start_epoch' = s.segment_start_epoch
    /\ fs' = s.fs
    /\ dirs' = s.dirs
    /\ opened' = s.opened
    /\ segments' = s.segments
    /\ trace' = s.trace
    /\ raised' = s.raised
    /\ faults' = s.faults
    /\ s.faults <= MaxFaults
    /\ call' = c
    /\ clock' = s.clock
    /\ UNCHANGED <<config, device_id, device_dir, ffmpeg_resolvable, peer>>
    /\ UNCHANGED server_vars

NoPacket == [len |-> 0, fmt |-> "none"]

\* the session delivers a packet; a library call may fail while fewer than
\* MaxFaults calls have failed
AppendPacket ==
    \E fmt \in Formats : \E len \in IF fmt = "pcm" THEN PacketLens ELSE OpusLens :
        LET opening == ~Skips(len) /\ wav_fp = None
            left == MaxFaults - faults
        IN  /\ opening => opened < MaxSegments
            /\ wav_fp # None => fs[wav_path].bytes + len <= MaxBytes
            /\ \E mk_root_ok \in IF opening THEN May(left) ELSE {TRUE} :
               \E mk_device_ok \in IF opening /\ mk_root_ok THEN May(left) ELSE {TRUE} :
               \E later \in IF opening /\ mk_root_ok /\ mk_device_ok
                             THEN 0 .. MaxClock - clock ELSE {0} :
               \E open_ok \in IF opening /\ mk_root_ok /\ mk_device_ok
                               THEN May(left) ELSE {TRUE} :
                 LET reach == ~Skips(len) /\ mk_root_ok /\ mk_device_ok /\ open_ok
                     opus == reach /\ fmt = "opus"
                 IN  \E ctor_ok \in IF opus /\ decoder = None THEN May(left) ELSE {TRUE} :
                     \E out \in IF opus /\ ctor_ok
                                THEN (IF left > 0 THEN {DecodeFails} ELSE {}) \cup DecodedLens
                                ELSE {0} :
                       LET pcm == IF fmt = "pcm" THEN len ELSE Max(out, 0)
                       IN  \E write \in IF reach /\ pcm > 1 /\ left > 0
                                         THEN WriteOutcomes(WholeSamples(pcm))
                                         ELSE {WriteReturns} :
                             LET in == [mk_root_ok |-> mk_root_ok, mk_device_ok |-> mk_device_ok,
                                        later |-> later, open_ok |-> open_ok,
                                        ctor_ok |-> ctor_ok,
                                        out |-> out, write |-> write, fin |-> AllOk]
                                 s2 == Ingest(Fields, len, fmt, in)
                                 fins == IF ReachesRotation(s2, len)
                                            /\ RotationDue(s2.frames_written)
                                         THEN FinChoices(s2.frames_written, FALSE,
                                                         s2.fs[s2.wav_path].bytes,
                                                         s2.faults)
                                         ELSE {AllOk}
                             IN  \E fin \in fins :
                                   Commit(append_audio_packet(Fields, len, fmt,
                                                              [in EXCEPT !.fin = fin]),
                                          [op |-> "append", len |-> len, fmt |-> fmt])

\* the session ends, or its owner calls close() again
Close ==
    \E fin \in IF wav_fp # None /\ wav_path # NoPath
               THEN FinChoices(frames_written, TRUE, fs[wav_path].bytes, faults) ELSE {AllOk} :
        Commit(close(Fields, fin), [op |-> "close"] @@ NoPacket)

\* a second of wall-clock time passes
Tick ==
    /\ clock < MaxClock
    /\ clock' = clock + 1
    /\ call' = [op |-> "tick"] @@ NoPacket
    /\ trace' = <<>>
    /\ raised' = FALSE
    /\ UNCHANGED <<config, device_id, device_dir, ffmpeg_resolvable, decoder,
                   decoders_made, wav_fp, wav_path, frames_written, segment_index,
                   segment_start_epoch, fs, dirs, opened, segments, faults, peer>>
    /\ UNCHANGED server_vars

\* the module instances a server holds, and the tasks that may call
\* update_config
Kinds == {"vad", "asr", "llm", "intent", "memory"}
Updaters == 1 .. MaxUpdaters
Idle == [pc |-> "idle", result |-> "none"]

\* a module field that holds None
NoModule == -1
\* asyncio.Lock(): not locked, nobody waiting
Unlocked == [locked |-> FALSE, waiters |-> <<>>]

\* the kinds WebSocketServer.__init__ asks initialize_modules for: none when
\* recording is enabled, else those named in config["selected_module"]
Requested(recording_enabled, selected) == IF recording_enabled THEN {} ELSE selected

\* WebSocketServer.__init__: the start-up configuration is configuration 0; a
\* field holds the instance built from it when initialize_modules returned one
\* for its kind (built), else None
ServerConstructed ==
    /\ server_config = 0
    /\ \E recording_enabled \in BOOLEAN, selected \in SUBSET Kinds :
          \E built \in SUBSET Requested(recording_enabled, selected) :
             modules = [k \in Kinds |-> IF k \in built THEN 0 ELSE NoModule]
    /\ config_lock = Unlocked
    /\ updaters = [u \in Updaters |-> Idle]

\* the server of the recorder specifications: recording is enabled, so no
\* module was built, and update_config is not called
ServerRecording ==
    /\ server_config = 0
    /\ modules = [k \in Kinds |-> NoModule]
    /\ config_lock = Unlocked
    /\ updaters = [u \in Updaters |-> Idle]

DeviceIds == {<<"a", ":", "7">>}
\* no second recorder: no second connection has arrived
NoPeer == [connected |-> FALSE, device_id |-> <<>>, device_dir |-> <<>>,
           constructed |-> FALSE]

\* AudioRecorder.__init__
Init ==
    /\ config \in RecordingConfig
    /\ ffmpeg_resolvable \in BOOLEAN
    /\ device_id \in DeviceIds
    /\ device_dir = sanitize_device_id(device_id)
    /\ clock = 0
    /\ decoder = None
    /\ decoders_made = 0
    /\ wav_fp = None
    /\ wav_path = NoPath
    /\ frames_written = 0
    /\ segment_index = 0
    /\ segment_start_epoch = NoEpoch
    /\ fs = NoFiles
    /\ dirs = {}
    /\ opened = 0
    /\ segments = <<>>
    /\ call = [op |-> "init"] @@ NoPacket
    /\ trace = <<>>
    /\ raised = FALSE
    /\ faults = 0
    /\ peer = NoPeer
    /\ ServerRecording

Next == AppendPacket \/ Close \/ Tick

Spec == Init /\ [][Next]_vars

-----------------------------------------------------------------------------
(* Construction alone, over every device id up to MaxIdLen characters *)

DeviceIdsUpTo(n) == UNION {[1 .. k -> IdChars] : k \in 0 .. n}

\* RecordingConfig()
DefaultConfig ==
    [enabled |-> FALSE, segment_seconds |-> 180, sample_rate |-> 16000, channels |-> 1,
     keep_wav |-> FALSE]

\* the arguments of AudioRecorder(config, device_id, session_id) are chosen
InitNew ==
    /\ config = DefaultConfig
    /\ ffmpeg_resolvable = TRUE
    /\ device_id \in DeviceIdsUpTo(MaxIdLen)
    /\ device_dir = <<>>
    /\ clock = 0
    /\ decoder = None
    /\ decoders_made = 0
    /\ wav_fp = None
    /\ wav_path = NoPath
    /\ frames_written = 0
    /\ segment_index = 0
    /\ segment_start_epoch = NoEpoch
    /\ fs = NoFiles
    /\ dirs = {}
    /\ opened = 0
    /\ segments = <<>>
    /\ call = [op |-> "new"] @@ NoPacket
    /\ trace = <<>>
    /\ raised = FALSE
    /\ faults = 0
    /\ peer = NoPeer
    /\ ServerRecording

\* AudioRecorder.__init__ runs
Construct ==
    /\ call.op = "new"
    /\ device_dir' = sanitize_device_id(device_id)
    /\ call' = [op |-> "init"] @@ NoPacket
    /\ UNCHANGED <<config, device_id, ffmpeg_resolvable, clock, decoder, decoders_made,
                   wav_fp, wav_path, frames_written, segment_index,
                   segment_start_epoch, fs, dirs, opened, segments, trace, raised,
                   faults, peer>>
    /\ UNCHANGED server_vars

NextNew == Construct

SanitizeSpec == InitNew /\ [][NextNew]_vars

-----------------------------------------------------------------------------
(* Two sessions of one server, each constructing its recorder *)

MaxPairIdLen == 2

\* the first connection carries any device id, the empty one included
InitPair ==
    /\ InitNew
    /\ device_id \in DeviceIdsUpTo(MaxPairIdLen)

\* the device id of the second connection arrives: any id, the empty one and
\* the id of the first connection included
PeerConnects ==
    /\ ~peer.connected
    /\ \E id \in DeviceIdsUpTo(MaxPairIdLen) :
          peer' = [connected |-> TRUE, device_id |-> id, device_dir |-> <<>>,
                   constructed |-> FALSE]
    /\ UNCHANGED <<config, device_id, device_dir, ffmpeg_resolvable, clock, decoder,
                   decoders_made, wav_fp, wav_path, frames_written, segment_index,
                   segment_start_epoch, fs, dirs, opened, segments, call, trace,
                   raised, faults>>
    /\ UNCHANGED server_vars

\* AudioRecorder.__init__ runs for the second session
ConstructPeer ==
    /\ peer.connected
    /\ ~peer.constructed
    /\ peer' = [peer EXCEPT !.device_dir = sanitize_device_id(peer.device_id),
                            !.constructed = TRUE]
    /\ UNCHANGED <<config, device_id, device_dir, ffmpeg_resolvable, clock, decoder,
                   decoders_made, wav_fp, wav_path, frames_written, segment_index,
                   segment_start_epoch, fs, dirs, opened, segments, call, trace,
                   raised, faults>>
    /\ UNCHANGED server_vars

NextPair == Construct \/ PeerConnects \/ ConstructPeer

PairSpec == InitPair /\ [][NextPair]_vars

-----------------------------------------------------------------------------
(* WebSocketServer.update_config, called by concurrent tasks.  A task runs *)
(* until it awaits: at the lock when it is held, and at the configuration  *)
(* fetch.  What follows the fetch runs without an await.  The functions    *)
(* get_config_from_api_async, check_vad_update, check_asr_update and       *)
(* initialize_modules are inputs: the fetch returns None, raises, or       *)
(* returns one of the configurations 1 .. MaxConfigs; initialize_modules   *)
(* raises or returns instances for some of the kinds.  A module instance   *)
(* is identified by its kind and the configuration it was built from.      *)

\* the outcomes of get_config_from_api_async
FetchNone == 0
FetchRaises == -1
Fetched == {FetchNone, FetchRaises} \cup (1 .. MaxConfigs)

\* update_config is called: async with self.config_lock.  The lock is taken at
\* once when it is free and no task is queued on it, else the task joins the
\* queue and waits
UpdateConfigCalled(u) ==
    /\ updaters[u].pc = "idle"
    /\ IF ~config_lock.locked /\ config_lock.waiters = <<>>
       THEN /\ config_lock' = [config_lock EXCEPT !.locked = TRUE]
            /\ updaters' = [updaters EXCEPT ![u] = [pc |-> "fetching", result |-> "none"]]
       ELSE /\ config_lock' = [config_lock EXCEPT !.waiters = Append(@, u)]
            /\ updaters' = [updaters EXCEPT ![u] = [pc |-> "waiting", result |-> "none"]]
    /\ UNCHANGED <<server_config, modules>>
    /\ UNCHANGED recorder_vars

\* the first task of the queue, woken by the release of the lock, runs: it
\* leaves the queue, takes the lock and starts the fetch
LockAcquired(u) ==
    /\ updaters[u].pc = "waiting"
    /\ ~config_lock.locked
    /\ config_lock.waiters # <<>>
    /\ Head(config_lock.waiters) = u
    /\ config_lock' = [locked |-> TRUE, waiters |-> Tail(config_lock.waiters)]
    /\ updaters' = [updaters EXCEPT ![u].pc = "fetching"]
    /\ UNCHANGED <<server_config, modules>>
    /\ UNCHANGED recorder_vars

\* the task leaves update_config with result r; the lock is released and the
\* first task of the queue is woken
Returns(u, r) ==
    /\ config_lock' = [config_lock EXCEPT !.locked = FALSE]
    /\ updaters' = [updaters EXCEPT ![u] = [pc |-> "idle", result |-> r]]

\* the fetch ends and the rest of update_config runs.  checks_ok: check_vad_update
\* and check_asr_update return; init_ok: initialize_modules returns; built: the
\* kinds in the dictionary it returns
UpdateConfigResumed(u) ==
    /\ updaters[u].pc = "fetching"
    /\ \E new_config \in Fetched :
       \E checks_ok \in IF new_config \in 1 .. MaxConfigs THEN BOOLEAN ELSE {TRUE} :
       \E init_ok \in IF new_config \in 1 .. MaxConfigs /\ checks_ok THEN BOOLEAN ELSE {TRUE} :
       \E built \in IF new_config \in 1 .. MaxConfigs /\ checks_ok /\ init_ok
                    THEN SUBSET Kinds ELSE {{}} :
          IF new_config \in {FetchNone, FetchRaises} \/ ~checks_ok
          THEN /\ UNCHANGED <<server_config, modules>>
               /\ Returns(u, "False")
          ELSE /\ server_config' = new_config
               /\ IF init_ok
                  THEN /\ modules' = [k \in Kinds |->
                                        IF k \in built THEN new_config ELSE modules[k]]
                       /\ Returns(u, "True")
                  ELSE /\ UNCHANGED modules
                       /\ Returns(u, "False")
    /\ UNCHANGED recorder_vars

\* no recorder is involved
NoRecorder ==
    /\ config = DefaultConfig
    /\ ffmpeg_resolvable = TRUE
    /\ device_id = <<>>
    /\ device_dir = <<>>
    /\ clock = 0
    /\ decoder = None
    /\ decoders_made = 0
    /\ wav_fp = None
    /\ wav_path = NoPath
    /\ frames_written = 0
    /\ segment_index = 0
    /\ segment_start_epoch = NoEpoch
    /\ fs = NoFiles
    /\ dirs = {}
    /\ opened = 0
    /\ segments = <<>>
    /\ call = [op |-> "none"] @@ NoPacket
    /\ trace = <<>>
    /\ raised = FALSE
    /\ faults = 0
    /\ peer = NoPeer

InitServer == NoRecorder /\ ServerConstructed

NextServer ==
    \E u \in Updaters :
        UpdateConfigCalled(u) \/ LockAcquired(u) \/ UpdateConfigResumed(u)

ServerSpec == InitServer /\ [][NextServer]_vars

-----------------------------------------------------------------------------
(* Vocabulary of the properties *)

Threshold == config.segment_seconds * config.sample_rate
IsOpen == wav_fp # None
Has(tr, what) == \E i \in DOMAIN tr : tr[i] = what
Last(seq) == seq[Len(seq)]

\* a step in which a segment is finalized, and the record of that segment
Finalizes == Len(segments') = Len(segments) + 1
\* a step in which _rotate_if_needed rotates
Rotates == segment_index' = segment_index + 1
\* frames and bytes of the current segment before a step (none: zero)
FramesBefore == IF IsOpen THEN frames_written ELSE 0
BytesBefore == IF IsOpen THEN fs[wav_path].bytes ELSE 0
\* frames and bytes of the segment a step wrote to, after the step: it is
\* still the current one, or the step finalized it
FramesAfter == IF Finalizes THEN Last(segments').frames ELSE frames_written'
BytesAfter == IF Finalizes THEN Last(segments').bytes ELSE fs'[wav_path'].bytes
\* the recorder's own fields and everything it persists
Recorder == <<decoder, decoders_made, wav_fp, wav_path, frames_written, segment_index,
              segment_start_epoch, fs, dirs, opened, segments, faults>>
FilesOf(f, ext) == {p \in DOMAIN f : p.ext = ext}

-----------------------------------------------------------------------------
(* C1: for an enabled recorder no append_audio_packet call raises to the   *)
(* caller, whichever filesystem or codec step fails during it.             *)
C1_AppendNeverRaises == call.op = "append" => ~raised

-----------------------------------------------------------------------------
\* an append of a PCM packet that returned normally and got past its early returns
PcmAppended == call'.op = "append" /\ call'.fmt = "pcm" /\ call'.len > 0
               /\ config.enabled /\ ~raised'
\* whole interleaved frames in a PCM packet of len bytes
FramesIn(len) == (len \div 2) \div config.channels

(* C2: rotation is driven by the accumulated frame count alone.  An append *)
(* that returns rotates exactly when the frames of the current segment,    *)
(* this packet included, reach segment_seconds * sample_rate; the segment  *)
(* it finalizes is the one written to, finalized unforced; no other call   *)
(* and no passage of time rotates or finalizes-by-rotation; and with a     *)
(* positive threshold an Open segment always holds fewer frames than the   *)
(* threshold.                                                              *)
C2_RotationByFrameCount ==
    /\ [](Threshold > 0 /\ IsOpen => frames_written < Threshold)
    /\ [][PcmAppended =>
            /\ Rotates <=> FramesBefore + FramesIn(call'.len) >= Threshold
            /\ Rotates => /\ Finalizes
                          /\ ~Last(segments').forced
                          /\ Last(segments').frames = FramesBefore + FramesIn(call'.len)
                          /\ ~IsOpen'
            /\ ~Rotates => /\ segments' = segments
                           /\ frames_written' = FramesBefore + FramesIn(call'.len)]_vars
    /\ [][call'.op = "append" => (Rotates <=> Finalizes)]_vars
    /\ [][call'.op = "append" /\ ~Rotates => segment_index' = segment_index]_vars
    /\ [][call'.op = "close" => segment_index' = segment_index]_vars
    /\ [][call'.op = "tick" => UNCHANGED Recorder]_vars

\* a rotation has just happened on a packet that completed a segment begun
\* by earlier packets
C2_Witness ==
    /\ call.op = "append" /\ call.fmt = "pcm"
    /\ Threshold > 0
    /\ segments # <<>>
    /\ ~Last(segments).forced
    /\ Last(segments).frames >= Threshold
    /\ Last(segments).frames > FramesIn(call.len)
    /\ ~IsOpen
    /\ segment_index = 1

-----------------------------------------------------------------------------
\* the files holding the audio of segment seg
FilesOfSegment(f, seg, ext) == {p \in FilesOf(f, ext) : f[p].seg = seg}
Renamed(p) == p.len # NoLabel
\* the rename was attempted, and the tool was looked up and, when found, run
RenameAttempted(tr) == Has(tr, "os.replace") \/ Has(tr, "os.replace!")
TranscodeAttempted(tr) ==
    IF ffmpeg_resolvable
    THEN Has(tr, "shutil.which") /\ (Has(tr, "subprocess.run") \/ Has(tr, "subprocess.run!"))
    ELSE Has(tr, "shutil.which!")
TranscodeTouched(tr) ==
    \/ Has(tr, "shutil.which") \/ Has(tr, "shutil.which!")
    \/ Has(tr, "subprocess.run") \/ Has(tr, "subprocess.run!")

(* C3: close() on an Open segment never discards it, whatever its frame    *)
(* count (zero included): the raw file is not deleted by the empty-segment *)
(* rule, the rename and the transcoding are attempted, and the raw file is *)
(* still there unless the tool returned and keep_wav is false.  A segment  *)
(* is discarded exactly when it is finalized unforced with zero frames,    *)
(* and then its raw file is removed with no rename and no transcoding.     *)
C3_CloseNeverDiscards ==
    /\ [][call'.op = "close" /\ IsOpen /\ wav_path # NoPath =>
            /\ Finalizes
            /\ Last(segments').forced /\ ~Last(segments').discarded
            /\ Last(segments').frames = frames_written
            /\ RenameAttempted(trace')
            /\ TranscodeAttempted(trace')
            /\ Has(trace', "os.replace") =>
                 \A p \in FilesOfSegment(fs', wav_fp, "wav") \cup
                          FilesOfSegment(fs', wav_fp, "mp3") : Renamed(p)
            /\ \/ FilesOfSegment(fs', wav_fp, "wav") # {}
               \/ /\ Has(trace', "subprocess.run") /\ Has(trace', "os.remove")
                  /\ ~config.keep_wav]_vars
    /\ [][Finalizes =>
            (Last(segments').discarded <=>
                ~Last(segments').forced /\ Last(segments').frames = 0)]_vars
    /\ [][Finalizes /\ ~Last(segments').forced /\ Last(segments').frames = 0 =>
            /\ Rotates
            /\ ~RenameAttempted(trace') /\ ~TranscodeTouched(trace')
            /\ Has(trace', "os.remove") \/ Has(trace', "os.remove!")
            /\ Has(trace', "os.remove") => wav_path \notin DOMAIN fs'
            /\ FilesOf(fs', "mp3") = FilesOf(fs, "mp3")
            /\ \A p \in DOMAIN fs' : ~Renamed(p) \/ p \in DOMAIN fs]_vars

\* close() has just finalized a segment that was opened and never written to
C3_Witness ==
    /\ call.op = "close"
    /\ segments # <<>>
    /\ Last(segments).forced /\ Last(segments).frames = 0
    /\ ~Last(segments).discarded
    /\ FilesOfSegment(fs, Last(segments).seg, "wav") # {}
    /\ Has(trace, "os.replace")

-----------------------------------------------------------------------------
(* C4: close() never raises and always ends in the Closed state: no active *)
(* segment, no active path, a frame counter of zero.                       *)
C4_CloseEndsClosed ==
    call.op = "close" =>
        ~raised /\ wav_fp = None /\ wav_path = NoPath /\ frames_written = 0

-----------------------------------------------------------------------------
(* C5: in no reachable state has a finalized segment with at least one     *)
(* frame neither a raw nor a transcoded file holding its audio.            *)
C5_ArtifactSurvives ==
    \A i \in DOMAIN segments :
        segments[i].frames > 0 =>
            \/ FilesOfSegment(fs, segments[i].seg, "wav") # {}
            \/ FilesOfSegment(fs, segments[i].seg, "mp3") # {}

-----------------------------------------------------------------------------
\* the raw file of the segment a step finalized is there afterwards, with the
\* bytes that the close of the handle left in it
RawPersists ==
    \E p \in FilesOfSegment(fs', Last(segments').seg, "wav") :
        fs'[p].bytes = Last(segments').stored
\* the step creates and rewrites no compressed file
NoMp3Created ==
    /\ FilesOf(fs', "mp3") = FilesOf(fs, "mp3")
    /\ \A p \in FilesOf(fs, "mp3") : fs'[p] = fs[p]

(* C6 as claimed: if the transcoding executable cannot be resolved, then   *)
(* after every finalize the raw file persists untouched and no compressed  *)
(* sibling is created.                                                     *)
C6_RawPersistsUnresolved ==
    [][Finalizes /\ ~ffmpeg_resolvable => RawPersists /\ NoMp3Created]_vars

(* C6 amended: if the transcoding executable cannot be resolved, then      *)
(* after a finalize that does not discard the segment (a forced one, or    *)
(* one of a segment with at least one frame) the raw file persists         *)
(* untouched, under its new name when the rename succeeded, and no         *)
(* compressed sibling is created; and no finalize runs the tool.           *)
C6_RawPersistsUnlessDiscarded ==
    /\ [][Finalizes /\ ~ffmpeg_resolvable /\ ~Last(segments').discarded =>
            /\ RawPersists
            /\ NoMp3Created
            /\ Has(trace', "os.replace") =>
                 \A p \in FilesOfSegment(fs', Last(segments').seg, "wav") : Renamed(p)]_vars
    /\ [][Finalizes /\ ~ffmpeg_resolvable =>
            NoMp3Created /\ ~Has(trace', "subprocess.run")]_vars

\* a non-empty segment has just been finalized with the tool missing
C6_Witness ==
    /\ call.op \in {"append", "close"}
    /\ ~ffmpeg_resolvable
    /\ Has(trace, "shutil.which!")
    /\ segments # <<>>
    /\ Last(segments).frames > 0
    /\ FilesOfSegment(fs, Last(segments).seg, "wav") # {}
    /\ FilesOf(fs, "mp3") = {}

-----------------------------------------------------------------------------
\* Decoder() or decode raised during the step
DecodeFailed(tr) == Has(tr, "decode!") \/ Has(tr, "Decoder!")
Dropped == call'.op = "append" /\ call'.fmt = "opus" /\ DecodeFailed(trace')
\* a compressed packet was decoded and written during the step
Decoded == call'.op = "append" /\ call'.fmt = "opus" /\ Has(trace', "decode")
           /\ Has(trace', "writeframes")
\* the segment a step wrote to is the one that was current before it
SameSegment == IsOpen => IF Finalizes THEN Last(segments').seg = wav_fp
                                      ELSE wav_fp' = wav_fp

(* C7 as claimed: a compressed packet whose decoding fails is dropped: no  *)
(* exception, no bytes appended, frame counter unchanged, and the segment  *)
(* stays the current one, so that the next valid packet is decoded and     *)
(* written to it.                                                          *)
C7_DropKeepsSegment ==
    /\ [][Dropped =>
            /\ ~raised'
            /\ ~Finalizes /\ IsOpen' /\ SameSegment
            /\ BytesAfter = BytesBefore
            /\ FramesAfter = FramesBefore]_vars
    /\ [][Decoded => SameSegment /\ BytesAfter - BytesBefore \in DecodedLens]_vars

(* C7 amended: a compressed packet whose decoding fails is dropped: no     *)
(* exception, no bytes appended, frame counter unchanged, a decoder made   *)
(* earlier is kept; when segment_seconds * sample_rate is positive the     *)
(* segment stays the current one, so that the next valid packet is decoded *)
(* and written to it; when it is not, the rotation check that follows the  *)
(* dropped packet finalizes the segment.                                   *)
C7_DropKeepsSegmentIfThresholdPositive ==
    /\ [][Dropped =>
            /\ ~raised'
            /\ ~Has(trace', "writeframes")
            /\ BytesAfter = BytesBefore
            /\ FramesAfter = FramesBefore
            /\ decoder # None => decoder' = decoder
            /\ Threshold > 0 => ~Finalizes /\ IsOpen' /\ SameSegment
            /\ Threshold <= 0 => Rotates /\ SameSegment]_vars
    /\ [][Decoded => SameSegment /\ BytesAfter - BytesBefore \in DecodedLens]_vars

\* a packet has just been dropped by decode() on a segment that already
\* holds a decoded packet and stays open
C7_Witness ==
    /\ call.op = "append" /\ call.fmt = "opus"
    /\ Has(trace, "decode!")
    /\ ~raised
    /\ IsOpen /\ frames_written > 0
    /\ decoder # None

-----------------------------------------------------------------------------
\* a write of a frame of L bytes appends 2 * floor(L / 2) bytes and adds
\* floor(floor(L / 2) / channels) frames; a frame of one byte does nothing
WritesWholeSamples ==
    /\ [][PcmAppended /\ call'.len >= 2 =>
            /\ Has(trace', "writeframes")
            /\ SameSegment
            /\ BytesAfter = BytesBefore + 2 * (call'.len \div 2)
            /\ FramesAfter = FramesBefore + (call'.len \div 2) \div config.channels]_vars
    /\ [][PcmAppended /\ call'.len = 1 =>
            /\ ~Has(trace', "writeframes")
            /\ BytesAfter = BytesBefore
            /\ FramesAfter = FramesBefore]_vars
    /\ [][Decoded =>
            FramesAfter = FramesBefore
                          + ((BytesAfter - BytesBefore) \div 2) \div config.channels]_vars

(* C8: a write of a frame of L bytes appends exactly 2 * floor(L / 2)      *)
(* bytes to the container and adds floor(floor(L / 2) / channels) to the   *)
(* frame counter; a frame of one byte appends nothing and leaves the       *)
(* counter alone; every container holds an even number of bytes.           *)
C8_WholeSamplesWritten ==
    /\ [](\A p \in DOMAIN fs : fs[p].bytes % 2 = 0)
    /\ WritesWholeSamples

-----------------------------------------------------------------------------
(* C9: append with recording disabled, or with an empty packet, is a       *)
(* silent no-op in every recorder state: it does not raise, makes no       *)
(* library call and changes nothing.                                       *)
C9_SkippedAppendIsNoOp ==
    [][call'.op = "append" /\ (~config.enabled \/ call'.len = 0) =>
          /\ UNCHANGED Recorder
          /\ ~raised'
          /\ trace' = <<>>]_vars

\* an empty packet has just been appended to a recorder with an Open,
\* non-empty segment
C9_Witness ==
    /\ call.op = "append" /\ call.len = 0
    /\ config.enabled
    /\ IsOpen /\ frames_written > 0
    /\ trace = <<>>

-----------------------------------------------------------------------------
AllInvalid(id) == \A i \in DOMAIN id : id[i] \notin SafeChars

(* C10: for every device id sanitize_device_id returns a non-empty string  *)
(* of characters in [a-zA-Z0-9._-], and for an id that is empty or has     *)
(* only invalid characters it returns exactly "unknown".                   *)
C10_SanitizeSafeOrUnknown ==
    call.op = "init" =>
        /\ device_dir # <<>>
        /\ \A i \in DOMAIN device_dir : device_dir[i] \in SafeChars
        /\ AllInvalid(device_id) => device_dir = Unknown

-----------------------------------------------------------------------------
\* a compressed packet got past the early returns and the call returned
OpusAppended == call'.op = "append" /\ call'.fmt = "opus" /\ call'.len > 0
                /\ config.enabled /\ ~raised'
\* the decoder is the one it was: never replaced, never reset
DecoderKept == decoder # None => decoder' = decoder /\ decoders_made' = decoders_made
\* only a compressed packet makes a decoder
DecoderOnlyFromOpus ==
    decoder' # decoder \/ decoders_made' # decoders_made =>
        call'.op = "append" /\ call'.fmt = "opus" /\ decoder = None

(* C11 as claimed: a new recorder has no decoder; the first compressed     *)
(* packet creates it; once created it is the decoder of every later        *)
(* compressed packet, never replaced or reset; PCM packets, close and the  *)
(* clock create none.                                                      *)
C11_DecoderOnFirstPacket ==
    /\ [](call.op = "init" => decoder = None)
    /\ [][DecoderKept /\ DecoderOnlyFromOpus]_vars
    /\ [][OpusAppended => decoder' # None]_vars

(* C11 amended: a new recorder has no decoder; a compressed packet that    *)
(* finds none constructs one, and keeps it when the construction succeeds; *)
(* when the construction raises the packet is dropped, the recorder still  *)
(* has no decoder, and the next compressed packet constructs again; once   *)
(* created the decoder is the one every later compressed packet is decoded *)
(* with, never replaced or reset (across PCM packets, decode failures,     *)
(* rotations and close), so at most one decoder is ever made; PCM packets, *)
(* close and the clock create none.                                        *)
C11_DecoderLazyAndKept ==
    /\ [](call.op = "init" => decoder = None /\ decoders_made = 0)
    /\ [](decoders_made <= 1 /\ decoder = (IF decoders_made = 0 THEN None ELSE 1))
    /\ [][DecoderKept /\ DecoderOnlyFromOpus]_vars
    /\ [][OpusAppended /\ decoder = None =>
            IF Has(trace', "Decoder!")
            THEN decoder' = None /\ ~Has(trace', "decode") /\ ~Has(trace', "writeframes")
            ELSE Has(trace', "Decoder") /\ decoder' = decoders_made + 1]_vars
    /\ [][OpusAppended /\ decoder # None =>
            /\ ~Has(trace', "Decoder") /\ ~Has(trace', "Decoder!")
            /\ Has(trace', "decode") \/ Has(trace', "decode!")]_vars

\* a compressed packet has just been decoded with the decoder made by an
\* earlier packet, after a decode failure and the end of a segment
C11_Witness ==
    /\ call.op = "append" /\ call.fmt = "opus"
    /\ Has(trace, "decode") /\ ~Has(trace, "Decoder")
    /\ decoder = 1
    /\ faults > 0
    /\ segments # <<>>

-----------------------------------------------------------------------------
\* the recorder has opened one segment, and rotation finalized it with exactly
\* segment_seconds * sample_rate frames: the packets fed so far total the
\* threshold and the last of them reached it
OneFullSegment(segs, n_opened) ==
    /\ n_opened = 1
    /\ Len(segs) = 1
    /\ ~segs[1].forced
    /\ segs[1].frames = Threshold
\* the length label, in ms, of a segment of that many frames
LabelOf(frames) == (frames * 1000) \div config.sample_rate
\* every file holding the segment's audio carries that label, and one exists
Labelled(f, seg, ms) ==
    /\ FilesOfSegment(f, seg, "wav") \cup FilesOfSegment(f, seg, "mp3") # {}
    /\ \A p \in FilesOfSegment(f, seg, "wav") \cup FilesOfSegment(f, seg, "mp3") :
          p.len = ms

\* every file holding the segment's audio carries that label, and the raw
\* file is one of them unless it was removed after the tool returned
LabelledWhereKept(f, tr, seg, ms) ==
    /\ \A p \in FilesOfSegment(f, seg, "wav") \cup FilesOfSegment(f, seg, "mp3") :
          p.len = ms
    /\ \/ FilesOfSegment(f, seg, "wav") # {}
       \/ Has(tr, "subprocess.run") /\ Has(tr, "os.remove")

(* C12 as claimed: when the PCM packets fed total exactly                  *)
(* segment_seconds * sample_rate frames, the last one reaching the         *)
(* threshold, exactly one segment is finalized, by the rotation; its file  *)
(* carries the length label floor(frames * 1000 / sample_rate) ms; and a   *)
(* close() that follows finalizes nothing and produces no artifact.        *)
C12_OneSegmentLabelled ==
    /\ [][PcmAppended /\ OneFullSegment(segments', opened') /\ segments = <<>> =>
            /\ Rotates /\ ~IsOpen'
            /\ Labelled(fs', 1, LabelOf(Threshold))]_vars
    /\ [][call'.op = "close" /\ OneFullSegment(segments, opened) /\ ~IsOpen =>
            /\ segments' = segments
            /\ fs' = fs
            /\ trace' = <<>>]_vars

(* C12 amended: when the PCM packets fed total exactly                     *)
(* segment_seconds * sample_rate frames, that number being positive and    *)
(* the last packet reaching it, exactly one segment is finalized, by the   *)
(* rotation, and it is not discarded; when the rename succeeds its files   *)
(* carry the length label floor(frames * 1000 / sample_rate) ms, which is  *)
(* 1000 * segment_seconds, and when the rename fails they keep the         *)
(* unlabelled name; the raw file is among them unless it was removed after *)
(* the tool returned; a close() that follows makes no library call,        *)
(* finalizes nothing, creates no file and changes no recorder field.       *)
C12_OneSegmentLabelledIfRenamed ==
    /\ [][PcmAppended /\ OneFullSegment(segments', opened') /\ segments = <<>>
             /\ Threshold > 0 =>
            /\ Rotates /\ ~IsOpen'
            /\ ~segments'[1].discarded
            /\ RenameAttempted(trace')
            /\ Has(trace', "os.replace") =>
                 /\ LabelledWhereKept(fs', trace', 1, LabelOf(Threshold))
                 /\ LabelOf(Threshold) = 1000 * config.segment_seconds
            /\ Has(trace', "os.replace!") =>
                 LabelledWhereKept(fs', trace', 1, NoLabel)]_vars
    /\ [][call'.op = "close" /\ OneFullSegment(segments, opened) /\ ~IsOpen =>
            /\ UNCHANGED Recorder
            /\ trace' = <<>>
            /\ ~raised']_vars

\* close() has just returned on a recorder whose only segment was rotated
\* out with exactly the threshold of frames and renamed with its length
C12_Witness ==
    /\ call.op = "close"
    /\ trace = <<>>
    /\ OneFullSegment(segments, opened)
    /\ Threshold > 0
    /\ ~IsOpen
    /\ Labelled(fs, 1, 1000)

-----------------------------------------------------------------------------
(* C13: finalizing a segment never renames onto, overwrites or deletes a   *)
(* file holding the audio of an earlier segment, so no two finalized       *)
(* segments end at the same path: when a segment that was Open before the  *)
(* call is finalized and no library call has ever failed, every file of    *)
(* another segment is there afterwards with the content it had.            *)
C13_FinalizeSparesEarlierSegments ==
    [][Finalizes /\ IsOpen /\ faults' = 0 =>
         \A p \in DOMAIN fs :
            fs[p].seg # wav_fp => p \in DOMAIN fs' /\ fs'[p] = fs[p]]_vars

-----------------------------------------------------------------------------
\* config.root_dir and the date directory, as path components
RootDir == <<"r">>
DateDir == <<"d">>
\* os.path.join(self.config.root_dir, self.device_dir, date_dir), as the
\* sequence of its components
DeviceRoot(token) == <<RootDir, token, DateDir>>

Dot == <<".">>
DotDot == <<".", ".">>
\* the directory a path names: "." stays where it is, ".." goes to the parent
RECURSIVE Resolve(_, _)
Resolve(parts, at) ==
    IF parts = <<>> THEN at
    ELSE IF Head(parts) = Dot THEN Resolve(Tail(parts), at)
    ELSE IF Head(parts) = DotDot
    THEN Resolve(Tail(parts), IF at = <<>> THEN <<>> ELSE SubSeq(at, 1, Len(at) - 1))
    ELSE Resolve(Tail(parts), Append(at, Head(parts)))

(* C14: for every device id the directory in which the recorder creates    *)
(* its segment files is root_dir/<token>/<date>, two levels below          *)
(* root_dir: the token is one path component, without a separator, and is  *)
(* neither "." nor "..".                                                   *)
C14_DeviceRootBelowRootDir ==
    call.op = "init" =>
        /\ \A i \in DOMAIN device_dir : device_dir[i] # "/"
        /\ device_dir \notin {<<>>, Dot, DotDot}
        /\ Resolve(DeviceRoot(device_dir), <<>>) = <<RootDir, device_dir, DateDir>>

-----------------------------------------------------------------------------
\* a device id that carries a name: nothing to strip, some character kept
Named(id) == Strip(id) = id /\ ~AllInvalid(id)

(* C15: two recorders constructed with distinct device ids create their    *)
(* segment files in different directories.  The ids compared are those     *)
(* that carry a name: an id that is empty or all-invalid is sent to the    *)
(* fixed token, and surrounding whitespace is stripped, by design.         *)
C15_DistinctIdsDistinctDirs ==
    /\ call.op = "init" /\ peer.constructed
    /\ peer.device_id # device_id
    /\ Named(device_id) /\ Named(peer.device_id)
    => Resolve(DeviceRoot(peer.device_dir), <<>>) # Resolve(DeviceRoot(device_dir), <<>>)

-----------------------------------------------------------------------------
\* the step rotated: it finalized a segment unforced, at or over the threshold
Rotated == /\ Finalizes
           /\ ~Last(segments').forced
           /\ Last(segments').frames >= Threshold
\* the segments finalized by rotation so far
RotatedOut == {i \in DOMAIN segments : ~segments[i].forced}
\* an append that took one of the two early returns
NoOpAppend == call'.op = "append" /\ (~config.enabled \/ call'.len = 0)

(* C16: the sequence index starts at 0, never decreases, and goes up by    *)
(* exactly one in a step exactly when that step rotates: close(), a no-op  *)
(* append and the clock leave it alone, and a dropped packet changes it    *)
(* only through the rotation check that follows it; so the index is the    *)
(* number of rotations so far.  A segment is opened under the current      *)
(* index, hence a segment opened after a rotation carries an index greater *)
(* than every segment opened before that rotation.                         *)
C16_IndexCountsRotations ==
    /\ [](call.op = "init" => segment_index = 0)
    /\ [](segment_index = Cardinality(RotatedOut))
    /\ [](IsOpen => wav_path.idx = segment_index)
    /\ [](\A i, j \in DOMAIN segments :
            i < j => /\ segments[i].idx <= segments[j].idx
                     /\ ~segments[i].forced => segments[i].idx < segments[j].idx)
    /\ [](\A i \in DOMAIN segments :
            IsOpen => /\ segments[i].idx <= wav_path.idx
                      /\ ~segments[i].forced => segments[i].idx < wav_path.idx)
    /\ [][segment_index' >= segment_index]_vars
    /\ [][segment_index' # segment_index <=> Rotated]_vars
    /\ [][Rotated => segment_index' = segment_index + 1 /\ call'.op = "append"]_vars
    /\ [][call'.op \in {"close", "tick"} \/ NoOpAppend =>
            segment_index' = segment_index]_vars
    /\ [][Dropped /\ Threshold > 0 => segment_index' = segment_index]_vars

\* a segment is Open under index 1 after the rotation of the segment of
\* index 0
C16_Witness ==
    /\ call.op = "append"
    /\ IsOpen
    /\ wav_path.idx = 1 /\ segment_index = 1
    /\ Len(segments) = 1
    /\ segments[1].idx = 0 /\ ~segments[1].forced

-----------------------------------------------------------------------------
(* C17: a recorder has at most one active segment.  A container is opened, *)
(* and the frame counter reset, only by a call that found the recorder     *)
(* Closed; an append to an Open segment writes to that segment and never   *)
(* lowers its frame count; and the handle and the path are both present or *)
(* both absent in every state.                                             *)
C17_OneActiveSegment ==
    /\ []((wav_fp = None) <=> (wav_path = NoPath))
    /\ [][opened' # opened => ~IsOpen /\ opened' = opened + 1]_vars
    /\ [][IsOpen /\ call'.op = "append" =>
            SameSegment /\ FramesAfter >= frames_written]_vars

-----------------------------------------------------------------------------
RECURSIVE SumOf(_, _)
SumOf(segs, field) ==
    IF segs = <<>> THEN 0 ELSE Head(segs)[field] + SumOf(Tail(segs), field)

\* frames and bytes held by the finalized segments and the Open one
TotalFrames == SumOf(segments, "frames") + (IF IsOpen THEN frames_written ELSE 0)
TotalBytes == SumOf(segments, "bytes") + (IF IsOpen THEN fs[wav_path].bytes ELSE 0)
\* the PCM lengths a step may have handed to a writeframes call that returned
WrittenLens ==
    IF call'.op = "append" /\ Has(trace', "writeframes")
    THEN IF call'.fmt = "pcm" THEN {call'.len} ELSE DecodedLens
    ELSE {0}
\* the calls so far are appends, then at most one close() that ended the
\* session: no segment was opened after a close
AppendsThenClose ==
    /\ \A i \in DOMAIN segments : i < Len(segments) => ~segments[i].forced
    /\ segments # <<>> /\ Last(segments).forced => ~IsOpen

(* C18: no accepted audio is lost or duplicated across segments.  Every    *)
(* step adds to the frames held by the finalized segments and the Open one *)
(* exactly what writeframes accepted in that step (and to the bytes, when  *)
(* no writeframes raised), so frames move from the Open segment to its     *)
(* finalized record unchanged; no container is finalized twice; after      *)
(* close() nothing is left in an unfinalized segment, and the finalized    *)
(* frame counts sum to the frames accepted; and after appends followed by  *)
(* close(), with no library call failed, every finalized segment that      *)
(* holds a frame has a file with all its bytes.                            *)
C18_FramesConserved ==
    /\ [](call.op = "init" => TotalFrames = 0 /\ TotalBytes = 0)
    /\ [][\E n \in WrittenLens :
            /\ TotalFrames' = TotalFrames + (n \div 2) \div config.channels
            /\ ~Has(trace', "writeframes!") =>
                 TotalBytes' = TotalBytes + 2 * (n \div 2)]_vars
    /\ [](\A i, j \in DOMAIN segments : i # j => segments[i].seg # segments[j].seg)
    /\ [](\A i \in DOMAIN segments : ~IsOpen \/ segments[i].seg # wav_fp)
    /\ [](call.op = "close" =>
            /\ ~IsOpen
            /\ TotalFrames = SumOf(segments, "frames"))
    /\ [](AppendsThenClose /\ faults = 0 =>
            \A i \in DOMAIN segments :
                segments[i].frames > 0 =>
                    \E p \in DOMAIN fs : /\ fs[p].seg = segments[i].seg
                                         /\ fs[p].bytes = segments[i].bytes)

\* close() has just finalized the rest of a session whose first segment was
\* rotated out: both hold frames
C18_Witness ==
    /\ call.op = "close"
    /\ Len(segments) = 2
    /\ ~segments[1].forced /\ segments[1].frames > 0
    /\ segments[2].forced /\ segments[2].frames > 0
    /\ TotalFrames = segments[1].frames + segments[2].frames

-----------------------------------------------------------------------------
(* C19: close() on a Closed recorder (never opened, just rotated, already  *)
(* closed) makes no library call, so it creates, renames, transcodes and   *)
(* deletes nothing, does not raise and changes no recorder field; close()  *)
(* always leaves the recorder Closed, so a second close() finds it Closed  *)
(* and close(); close() has the effect of one close().                     *)
C19_CloseIdempotent ==
    /\ [][call'.op = "close" /\ ~IsOpen =>
            /\ UNCHANGED Recorder
            /\ trace' = <<>>
            /\ ~raised']_vars
    /\ [](call.op = "close" => ~IsOpen)
    /\ [][call.op = "close" /\ call'.op = "close" =>
            UNCHANGED Recorder /\ trace' = <<>>]_vars

\* close() has just returned, having found the recorder Closed by an earlier
\* close() that finalized a segment
C19_Witness ==
    /\ call.op = "close"
    /\ trace = <<>>
    /\ ~IsOpen
    /\ segments # <<>>
    /\ Last(segments).forced
    /\ fs # NoFiles

-----------------------------------------------------------------------------
\* task u returns from update_config in this step, with result r
Returned(u, r) ==
    updaters[u].pc = "fetching" /\ updaters'[u].pc = "idle" /\ updaters'[u].result = r
\* the tasks inside the critical section of update_config
InCritical == {u \in Updaters : updaters[u].pc = "fetching"}

(* C20: update_config is all-or-nothing and serialized.  Whenever it       *)
(* returns False the server's config and its module instances are what     *)
(* they were; and at most one task is between acquiring config_lock and    *)
(* returning, that task being the holder of the lock.                      *)
C20_UpdateAllOrNothing ==
    /\ [][\A u \in Updaters :
            Returned(u, "False") => server_config' = server_config /\ modules' = modules]_vars
    /\ [](Cardinality(InCritical) <= 1)
    /\ [](InCritical # {} <=> config_lock.locked)

====
